---------------------------- MODULE Spec2Model ----------------------------
(***************************************************************************)
(* Selection / cache consistency of the bundle-llm-app front end.          *)
(*                                                                         *)
(* Two controllers of the repository are modelled:                         *)
(*   - the multi-expand controller (src/frontend/app/page.tsx, second      *)
(*     HomePage, lines 317-1081): expandedBundleIds, bundleMemories,       *)
(*     loadingBundles, selectedMemoryIds;   specification  Spec            *)
(*   - the single-active-bundle controller (src/unnamed/part_000):         *)
(*     activeBundleId, memories, selectedMemories,                         *)
(*     pendingSelectAllBundleId;            specification  SpecSA          *)
(*                                                                         *)
(* React state is modelled as the committed state between events.  A       *)
(* synchronous handler reads the state of the render it was created in,    *)
(* which is the current state; the continuation of an async handler runs   *)
(* its functional updaters (prev => ...) on the state at completion time   *)
(* and reads everything else from the closure captured at call time, which *)
(* is kept in the in-flight task.                                          *)
(*                                                                         *)
(* The REST data service is an external collaborator (spec section 6); it  *)
(* is modelled by srvBundles / srvMem and the Srv* steps.                  *)
(***************************************************************************)
EXTENDS Naturals, Sequences, FiniteSets, Bags, TLC

\* ------------------------------------------------------------------ bounds
\* Number of requests (fetches and mutation calls) that may be in flight.
MaxInFlight == 2
\* Number of user actions (clicks, drops, saves) in one run.
MaxOps == 4

\* ---------------------------------------------------------------- universe
NoBundle == "none"
NoMem == "nomem"
Fresh == "fresh"
Deleted == "deleted"

\* The containers of the session: root A with its child B.
BundleOrder == <<"A", "B">>
BundleIds == {BundleOrder[i] : i \in DOMAIN BundleOrder}

\* The containers of a session that rearranges the tree: the chain A > B > C.
TreeOrder == <<"A", "B", "C">>
TreeBundleIds == {TreeOrder[i] : i \in DOMAIN TreeOrder}

\* The item ids the data service hands out, in the order it lists them.
MemOrder == <<"m1", "m2", "m3">>
MemIds == {MemOrder[i] : i \in DOMAIN MemOrder}

VARIABLES
    \* data service
    srvBundles,         \* bundles that exist on the server
    srvMem,             \* item id -> its bundle on the server, Fresh or Deleted
    \* multi-expand controller (page.tsx)
    bundles,            \* Bundle[]: sequence of [id, parent_id]
    expandedBundleIds,  \* string[]
    bundleMemories,     \* Record<string, MemoryItem[]>: entries in key order
    loadingBundles,     \* the bundle ids whose loading flag is true
    selectedMemoryIds,  \* string[] without duplicates, as a set
    \* single-active-bundle controller (part_000)
    activeBundleId,     \* string | null
    memories,           \* MemoryItem[] of the active bundle
    isLoadingMemories,  \* boolean
    selectedMemories,   \* Record<string, MemoryItem>, as the set of its values
    pendingSelectAllBundleId,   \* string | null
    \* both
    tasks,              \* bag of in-flight async continuations
    last,               \* the last step taken, see Note
    nOps                \* user actions taken so far

vars == <<srvBundles, srvMem, bundles, expandedBundleIds, bundleMemories,
          loadingBundles, selectedMemoryIds, activeBundleId, memories,
          isLoadingMemories, selectedMemories, pendingSelectAllBundleId,
          tasks, last, nOps>>

srvVars == <<srvBundles, srvMem>>

\* state of the multi-expand controller only
meVars == <<expandedBundleIds, bundleMemories, loadingBundles,
            selectedMemoryIds>>

\* state of the single-active-bundle controller only
saVars == <<activeBundleId, memories, isLoadingMemories, selectedMemories,
            pendingSelectAllBundleId>>

\* ------------------------------------------------------------------ helpers
Range(s) == {s[i] : i \in DOMAIN s}

Min(S) == CHOOSE x \in S : \A y \in S : x <= y

\* mems.map((m) => m.id)
Ids(mems) == {mems[i].id : i \in DOMAIN mems}

Item(m, b) == [id |-> m, bundle_id |-> b]

\* prev.filter((m) => m.id !== memoryId)
RemoveItem(mems, m) ==
    LET Keep(e) == e.id # m IN SelectSeq(mems, Keep)

\* prev.filter((id) => id !== x) on an array
RemoveId(s, x) ==
    LET Keep(e) == e # x IN SelectSeq(s, Keep)

\* Record<string, MemoryItem[]> with JavaScript's insertion-ordered keys
Keys(bm) == {bm[i].key : i \in DOMAIN bm}

\* prev[bundleId] ?? []
Get(bm, b) ==
    IF b \in Keys(bm)
    THEN bm[CHOOSE i \in DOMAIN bm : bm[i].key = b].items
    ELSE <<>>

\* { ...prev, [bundleId]: items }
Put(bm, b, items) ==
    IF b \in Keys(bm)
    THEN [i \in DOMAIN bm |->
             IF bm[i].key = b THEN [key |-> b, items |-> items] ELSE bm[i]]
    ELSE Append(bm, [key |-> b, items |-> items])

\* delete next[bundleId]
Del(bm, b) ==
    LET Keep(e) == e.key # b IN SelectSeq(bm, Keep)

\* for (const [bId, mems] of Object.entries(bundleMemories))
\*   if (mems.some((m) => m.id === memoryId)) { found = bId; break; }
FindBundleOf(bm, m) ==
    LET hits == {i \in DOMAIN bm : m \in Ids(bm[i].items)}
    IN IF hits = {} THEN NoBundle ELSE bm[Min(hits)].key

BundleIdsOf(bs) == {bs[i].id : i \in DOMAIN bs}

\* ------------------------------------------------------------ data service
\* listItems(containerId): the items of the bundle, in the service's order
SrvList(b) ==
    LET In(m) == srvMem[m] = b
        ms == SelectSeq(MemOrder, In)
    IN [i \in DOMAIN ms |-> Item(ms[i], b)]

\* the id the service gives to the next created item
FreshIds == {i \in DOMAIN MemOrder : srvMem[MemOrder[i]] = Fresh}
NextFreshId == MemOrder[Min(FreshIds)]

\* -------------------------------------------------------------------- tasks
\* An update call made by the loop of handleMoveSelectedMemories carries the
\* loop's position: rest is the selected items still to be moved, each with
\* the bundle the scan of the captured buckets finds it in.  run is history:
\* the bundle whose toolbar started the loop (src), the items of the loop
\* (all), whether a call of the loop has been rejected (failed) and the
\* number of operations started before the loop (op0).
NoRun == [src |-> NoBundle, all |-> {}, failed |-> FALSE, op0 |-> 0]

Task(kind, b, m, to, snap) ==
    [kind |-> kind, b |-> b, m |-> m, to |-> to, st |-> "sent",
     res |-> <<>>, snap |-> snap, sup |-> FALSE, err |-> FALSE,
     rest |-> <<>>, run |-> NoRun]

\* History: a pending select-all is superseded (sup) once select-all is
\* invoked for a different bundle.  The code keeps no such mark.
Supersede(bag, b) ==
    LET Mark(t) == IF t.kind = "selectAll" /\ t.b # b
                   THEN [t EXCEPT !.sup = TRUE] ELSE t
        S == BagToSet(bag)
        T == {Mark(t) : t \in S}
    IN [u \in T |-> LET src == {t \in S : Mark(t) = u}
                        RECURSIVE Sum(_)
                        Sum(X) == IF X = {} THEN 0
                                  ELSE LET x == CHOOSE x \in X : TRUE
                                       IN bag[x] + Sum(X \ {x})
                    IN Sum(src)]

InFlight == BagCardinality(tasks)
TaskSet == BagToSet(tasks)
Spawn(t) == tasks (+) SetToBag({t})
Retire(t) == tasks (-) SetToBag({t})
Replace(t, u) == (tasks (-) SetToBag({t})) (+) SetToBag({u})

\* for (const m of selectedInThisBundle) await onUpdateMemoryContent(...):
\* when the call for one item has returned (handleUpdateMemoryContent catches
\* a rejection itself), the loop calls the same captured handler for the next
\* item, or ends
ContinueRun(t, failed) ==
    IF t.rest = <<>> THEN Retire(t)
    ELSE Replace(t, [Task("update", Head(t.rest).from, Head(t.rest).m, t.to, {})
                        EXCEPT !.rest = Tail(t.rest),
                               !.run = [t.run EXCEPT !.failed = @ \/ failed]])

\* History of the last step of a controller, for stating what a step did.  The
\* steps of the multi-expand controller that the properties speak about
\* (select-all, its completion, the completion of a load, of an update and of
\* a bundle deletion, the rejection of a mutation call) record their name (op), every other one of its steps records
\* "step"; with the name go the
\* bundle and item arguments (b, m) and, for the steps that need them, the
\* source bundle of a move (from), the Selection Set before the step (sel0),
\* the ids in bundle b's bucket before the step (ids) and the bucket keys
\* before the step (loaded) and whether the fetch a load completion ends had
\* failed (err).  While select-all has been applied to the
\* non-empty bucket of the same bundle n times in a row with no step of the
\* controller in between, sel0 is the Selection Set before the first of them.
Note(op, b, m) ==
    [op |-> op, b |-> b, m |-> m, from |-> NoBundle, n |-> 0, sel0 |-> {},
     ids |-> {}, loaded |-> {}, err |-> FALSE]

NoteToggleAll(b) ==
    IF last.op = "selectAll" /\ last.b = b /\ last.n = 1
    THEN [Note("selectAll", b, NoMem) EXCEPT !.n = 2, !.sel0 = last.sel0]
    ELSE [Note("selectAll", b, NoMem) EXCEPT !.n = 1, !.sel0 = selectedMemoryIds]

\* The expansion of bundle b that follows, with no step of the controller in
\* between, the completion of a move of item m to b that created b's bucket,
\* records "expand" with b and m.
NoteExpand(b) ==
    IF last.op = "updateDone" /\ last.b = b /\ last.from # b
       /\ b \notin last.loaded
    THEN Note("expand", b, last.m)
    ELSE Note("step", NoBundle, NoMem)

\* -------------------------------------------------------------- bundle tree
\* getChildBundles: the direct children of a bundle in the list
GetChildBundles(parentId) ==
    {bundles[i].id : i \in {j \in DOMAIN bundles : bundles[j].parent_id = parentId}}

\* a bundle and its transitive descendants
RECURSIVE ScopeOf(_, _)
ScopeOf(b, depth) ==
    IF depth = 0 THEN {b}
    ELSE {b} \cup UNION {ScopeOf(c, depth - 1) : c \in GetChildBundles(b)}

Scope(b) == ScopeOf(b, Len(bundles))

\* ------------------------------------------------- multi-expand controller
\* isLoadingBundle
IsLoadingBundle(b) == b \in loadingBundles

\* getMemoriesForBundle
GetMemoriesForBundle(b) == Get(bundleMemories, b)

\* Mutant of IsBundleFullySelected: the result is read from the Selection Set
\* of the render, which the select-all has not reached yet.
IsBundleFullySelected_Stale(b) ==
    LET mems == Get(bundleMemories, b)
    IN IF Len(mems) = 0 THEN FALSE
       ELSE IF last.op = "selectAll" /\ last.n = 1 /\ last.b = b
            THEN Ids(mems) \subseteq last.sel0
            ELSE Ids(mems) \subseteq selectedMemoryIds

\* isBundleFullySelected
IsBundleFullySelected(b) ==
    LET mems == Get(bundleMemories, b)
    IN IF Len(mems) = 0 THEN FALSE ELSE Ids(mems) \subseteq selectedMemoryIds

\* Mutant of SelectAllUpdater: the deselect branch is lost.
SelectAllUpdater_NeverDeselect(idsInBundle, prev) == prev \cup idsInBundle

\* Mutant of SelectAllUpdater: the select branch replaces the selection.
SelectAllUpdater_ReplaceSelection(idsInBundle, prev) ==
    IF idsInBundle \subseteq prev
    THEN prev \ idsInBundle
    ELSE idsInBundle

\* The updater both branches of handleToggleBundleSelectAll hand to
\* setSelectedMemoryIds: deselect the bundle's ids when all are selected,
\* add them otherwise.
SelectAllUpdater(idsInBundle, prev) ==
    IF idsInBundle \subseteq prev
    THEN prev \ idsInBundle
    ELSE prev \cup idsInBundle

\* The memory cards the panel shows: the items of an expanded bundle of the
\* list, unless that bundle shows its loading line.
Displayed(m) ==
    \E b \in BundleIdsOf(bundles) :
        /\ b \in Range(expandedBundleIds)
        /\ ~IsLoadingBundle(b)
        /\ m \in Ids(GetMemoriesForBundle(b))

\* handleExpandBundle, expanded branch: collapse
Collapse(b) ==
    /\ nOps < MaxOps
    /\ nOps' = nOps + 1
    /\ UNCHANGED saVars
    /\ b \in BundleIdsOf(bundles)
    /\ b \in Range(expandedBundleIds)
    /\ expandedBundleIds' = RemoveId(expandedBundleIds, b)
    /\ last' = Note("step", NoBundle, NoMem)
    /\ UNCHANGED <<srvVars, bundles, bundleMemories, loadingBundles,
                   selectedMemoryIds, tasks>>

\* handleExpandBundle, closed branch: open and call loadBundleMemories, which
\* sets the loading flag and starts the fetch
Expand(b) ==
    /\ nOps < MaxOps
    /\ nOps' = nOps + 1
    /\ UNCHANGED saVars
    /\ b \in BundleIdsOf(bundles)
    /\ b \notin Range(expandedBundleIds)
    /\ InFlight < MaxInFlight
    /\ expandedBundleIds' = Append(expandedBundleIds, b)
    /\ loadingBundles' = loadingBundles \cup {b}
    /\ tasks' = Spawn(Task("load", b, NoMem, NoBundle, {}))
    /\ last' = NoteExpand(b)
    /\ UNCHANGED <<srvVars, bundles, bundleMemories, selectedMemoryIds>>

\* Mutant of LoadDone: the fetched list is stored into an empty cache instead
\* of the cache as it is at completion, so the other buckets are lost.
LoadDone_DropsOtherBuckets ==
    \E t \in TaskSet :
        /\ t.kind = "load" /\ t.st = "ok"
        /\ bundleMemories' = Put(<<>>, t.b, t.res)
        /\ loadingBundles' = loadingBundles \ {t.b}
        /\ tasks' = Retire(t)
        /\ last' = [Note("loadDone", t.b, NoMem) EXCEPT
                       !.sel0 = selectedMemoryIds,
                       !.ids = Ids(Get(bundleMemories, t.b)),
                       !.err = t.err]
        /\ UNCHANGED <<srvVars, bundles, expandedBundleIds, selectedMemoryIds>>
        /\ UNCHANGED <<nOps, saVars>>

\* loadBundleMemories after the await: store the fetched list, clear the flag
LoadDone ==
    \E t \in TaskSet :
        /\ t.kind = "load" /\ t.st = "ok"
        /\ bundleMemories' = Put(bundleMemories, t.b, t.res)
        /\ loadingBundles' = loadingBundles \ {t.b}
        /\ tasks' = Retire(t)
        /\ last' = [Note("loadDone", t.b, NoMem) EXCEPT
                       !.sel0 = selectedMemoryIds,
                       !.ids = Ids(Get(bundleMemories, t.b)),
                       !.err = t.err]
        /\ UNCHANGED <<srvVars, bundles, expandedBundleIds, selectedMemoryIds>>
        /\ UNCHANGED <<nOps, saVars>>

\* handleToggleBundleSelectAll with a non-empty bucket: toggle at once
ToggleBundleSelectAll(b) ==
    /\ nOps < MaxOps
    /\ nOps' = nOps + 1
    /\ UNCHANGED saVars
    /\ b \in BundleIdsOf(bundles)
    /\ Len(Get(bundleMemories, b)) # 0
    /\ expandedBundleIds' =
          IF b \in Range(expandedBundleIds) THEN expandedBundleIds
          ELSE Append(expandedBundleIds, b)
    /\ selectedMemoryIds' =
          SelectAllUpdater(Ids(Get(bundleMemories, b)), selectedMemoryIds)
    /\ tasks' = Supersede(tasks, b)
    /\ last' = NoteToggleAll(b)
    /\ UNCHANGED <<srvVars, bundles, bundleMemories, loadingBundles>>

\* handleToggleBundleSelectAll with no bucket or an empty one: open the bundle
\* and start the fetch of the async block
ToggleBundleSelectAllFetch(b) ==
    /\ nOps < MaxOps
    /\ nOps' = nOps + 1
    /\ UNCHANGED saVars
    /\ b \in BundleIdsOf(bundles)
    /\ Len(Get(bundleMemories, b)) = 0
    /\ InFlight < MaxInFlight
    /\ expandedBundleIds' =
          IF b \in Range(expandedBundleIds) THEN expandedBundleIds
          ELSE Append(expandedBundleIds, b)
    /\ tasks' = Supersede(tasks, b) (+)
                 SetToBag({Task("selectAll", b, NoMem, NoBundle, {})})
    /\ last' = Note("step", NoBundle, NoMem)
    /\ UNCHANGED <<srvVars, bundles, bundleMemories, loadingBundles,
                   selectedMemoryIds>>

\* the async block of handleToggleBundleSelectAll after the await
SelectAllDone ==
    \E t \in TaskSet :
        /\ t.kind = "selectAll" /\ t.st = "ok"
        /\ bundleMemories' = Put(bundleMemories, t.b, t.res)
        /\ selectedMemoryIds' =
              IF Len(t.res) = 0 THEN selectedMemoryIds
              ELSE SelectAllUpdater(Ids(t.res), selectedMemoryIds)
        /\ tasks' = Retire(t)
        /\ last' = [Note("selectAllDone", t.b, NoMem) EXCEPT
                       !.sel0 = selectedMemoryIds, !.n = IF t.sup THEN 1 ELSE 0]
        /\ UNCHANGED <<srvVars, bundles, expandedBundleIds, loadingBundles>>
        /\ UNCHANGED <<nOps, saVars>>

\* handleToggleMemorySelect, from the checkbox of a displayed card
ToggleMemorySelect(m) ==
    /\ nOps < MaxOps
    /\ nOps' = nOps + 1
    /\ UNCHANGED saVars
    /\ Displayed(m)
    /\ selectedMemoryIds' =
          IF m \in selectedMemoryIds THEN selectedMemoryIds \ {m}
          ELSE selectedMemoryIds \cup {m}
    /\ last' = Note("toggle", NoBundle, m)
    /\ UNCHANGED <<srvVars, bundles, expandedBundleIds, bundleMemories,
                   loadingBundles, tasks>>

\* handleSaveMemory up to the await: the save panel offers the bundles of the
\* list
SaveMemory(b) ==
    /\ nOps < MaxOps
    /\ nOps' = nOps + 1
    /\ UNCHANGED saVars
    /\ b \in BundleIdsOf(bundles)
    /\ InFlight < MaxInFlight
    /\ tasks' = Spawn(Task("save", b, NoMem, NoBundle, {}))
    /\ last' = Note("step", NoBundle, NoMem)
    /\ UNCHANGED <<srvVars, bundles, expandedBundleIds, bundleMemories,
                   loadingBundles, selectedMemoryIds>>

\* handleSaveMemory after the await: prepend the created item to the bucket,
\* which is created when there was none
SaveDone ==
    \E t \in TaskSet :
        /\ t.kind = "save" /\ t.st = "ok"
        /\ bundleMemories' =
              Put(bundleMemories, t.b, t.res \o Get(bundleMemories, t.b))
        /\ tasks' = Retire(t)
        /\ last' = Note("step", NoBundle, NoMem)
        /\ UNCHANGED <<srvVars, bundles, expandedBundleIds, loadingBundles,
                       selectedMemoryIds>>
        /\ UNCHANGED <<nOps, saVars>>

\* handleUpdateMemoryContent up to the await, for a displayed card dropped on
\* the row of bundle `to` (patch.bundle_id = to; a drop on the card's own
\* bundle changes no container, like an edit of the text).  fromBundleId is
\* found by scanning the buckets of this render.
UpdateMemoryContent(m, to) ==
    /\ nOps < MaxOps
    /\ nOps' = nOps + 1
    /\ UNCHANGED saVars
    /\ Displayed(m)
    /\ to \in BundleIdsOf(bundles)
    /\ FindBundleOf(bundleMemories, m) # NoBundle
    /\ InFlight < MaxInFlight
    /\ tasks' = Spawn(Task("update", FindBundleOf(bundleMemories, m), m, to, {}))
    /\ last' = Note("step", NoBundle, NoMem)
    /\ UNCHANGED <<srvVars, bundles, expandedBundleIds, bundleMemories,
                   loadingBundles, selectedMemoryIds>>

\* setBundleMemories updater of handleUpdateMemoryContent: drop the item from
\* every bucket, then put the returned item first in the bucket of toBundleId
MoveInCache(prev, memoryId, updated, toBundleId) ==
    LET next == [i \in DOMAIN prev |->
                    [key |-> prev[i].key,
                     items |-> RemoveItem(prev[i].items, memoryId)]]
    IN Put(next, toBundleId, <<updated>> \o Get(next, toBundleId))

\* Mutant of MoveInSelection: a move keeps the item selected.
MoveInSelection_KeepSelected(prev, memoryId, fromBundleId, toBundleId) == prev

\* setSelectedMemoryIds updater of handleUpdateMemoryContent
MoveInSelection(prev, memoryId, fromBundleId, toBundleId) ==
    IF memoryId \notin prev THEN prev
    ELSE IF toBundleId # fromBundleId THEN prev \ {memoryId}
    ELSE prev

\* handleUpdateMemoryContent after the await
UpdateDone ==
    \E t \in TaskSet :
        /\ t.kind = "update" /\ t.st = "ok"
        /\ LET updated == t.res[1]
               fromBundleId == t.b
               toBundleId == IF updated.bundle_id # NoBundle
                             THEN updated.bundle_id ELSE fromBundleId
           IN /\ bundleMemories' =
                    MoveInCache(bundleMemories, t.m, updated, toBundleId)
              /\ selectedMemoryIds' =
                    MoveInSelection(selectedMemoryIds, t.m, fromBundleId, toBundleId)
              /\ last' = [Note("updateDone", toBundleId, t.m) EXCEPT
                             !.from = fromBundleId,
                             !.sel0 = selectedMemoryIds,
                             !.loaded = Keys(bundleMemories)]
        /\ tasks' = ContinueRun(t, FALSE)
        /\ UNCHANGED <<srvVars, bundles, expandedBundleIds, loadingBundles>>
        /\ UNCHANGED <<nOps, saVars>>

\* memsInBundle.filter((m) => selectedMemoryIds.includes(m.id))
SelectedInBundle(b) ==
    LET Sel(x) == x.id \in selectedMemoryIds
    IN SelectSeq(GetMemoriesForBundle(b), Sel)

\* handleMoveSelectedMemories up to the first await, from the toolbar under
\* the list of the expanded bundle fromBundleId (the confirm dialog answered
\* yes): the selected items of the bundle are moved to targetId one call
\* after another, every call through the handleUpdateMemoryContent of this
\* render, which scans the buckets of this render
MoveSelectedMemories(fromBundleId, targetId) ==
    /\ nOps < MaxOps
    /\ nOps' = nOps + 1
    /\ UNCHANGED saVars
    /\ fromBundleId \in BundleIdsOf(bundles)
    /\ fromBundleId \in Range(expandedBundleIds)
    /\ ~IsLoadingBundle(fromBundleId)
    /\ targetId \in BundleIdsOf(bundles) \ {fromBundleId}
    /\ InFlight < MaxInFlight
    /\ LET selectedInThisBundle == SelectedInBundle(fromBundleId)
           queue == [i \in DOMAIN selectedInThisBundle |->
                        [m |-> selectedInThisBundle[i].id,
                         from |-> FindBundleOf(bundleMemories,
                                               selectedInThisBundle[i].id)]]
       IN /\ Len(selectedInThisBundle) > 0
          /\ tasks' = Spawn([Task("update", queue[1].from, queue[1].m,
                                   targetId, {})
                                EXCEPT !.rest = Tail(queue),
                                       !.run = [src |-> fromBundleId,
                                                all |-> Ids(selectedInThisBundle),
                                                failed |-> FALSE,
                                                op0 |-> nOps + 1]])
    /\ last' = Note("step", NoBundle, NoMem)
    /\ UNCHANGED <<srvVars, bundles, expandedBundleIds, bundleMemories,
                   loadingBundles, selectedMemoryIds>>

\* handleDeleteMemory up to the await (the confirm dialog answered yes)
DeleteMemory(m) ==
    /\ nOps < MaxOps
    /\ nOps' = nOps + 1
    /\ UNCHANGED saVars
    /\ Displayed(m)
    /\ FindBundleOf(bundleMemories, m) # NoBundle
    /\ InFlight < MaxInFlight
    /\ tasks' = Spawn(Task("deleteMemory", FindBundleOf(bundleMemories, m), m,
                           NoBundle, {}))
    /\ last' = Note("step", NoBundle, NoMem)
    /\ UNCHANGED <<srvVars, bundles, expandedBundleIds, bundleMemories,
                   loadingBundles, selectedMemoryIds>>

\* handleDeleteMemory after the await
DeleteMemoryDone ==
    \E t \in TaskSet :
        /\ t.kind = "deleteMemory" /\ t.st = "ok"
        /\ bundleMemories' =
              Put(bundleMemories, t.b, RemoveItem(Get(bundleMemories, t.b), t.m))
        /\ selectedMemoryIds' = selectedMemoryIds \ {t.m}
        /\ tasks' = Retire(t)
        /\ last' = Note("step", NoBundle, NoMem)
        /\ UNCHANGED <<srvVars, bundles, expandedBundleIds, loadingBundles>>
        /\ UNCHANGED <<nOps, saVars>>

\* handleDeleteBundle up to the await (the confirm dialog answered yes); the
\* continuation reads bundleMemories[bundleId] of this render
DeleteBundle(b) ==
    /\ nOps < MaxOps
    /\ nOps' = nOps + 1
    /\ UNCHANGED saVars
    /\ b \in BundleIdsOf(bundles)
    /\ InFlight < MaxInFlight
    /\ tasks' = Spawn(Task("deleteBundle", b, NoMem, NoBundle,
                           Ids(Get(bundleMemories, b))))
    /\ last' = Note("step", NoBundle, NoMem)
    /\ UNCHANGED <<srvVars, bundles, expandedBundleIds, bundleMemories,
                   loadingBundles, selectedMemoryIds>>

\* setSelectedMemoryIds updater of handleDeleteBundle; idsInBundle comes from
\* the bundleMemories of the render in which the handler was called
PruneDeletedBundle(prev, idsInBundle) == prev \ idsInBundle

\* handleDeleteBundle after the await
DeleteBundleDone ==
    \E t \in TaskSet :
        /\ t.kind = "deleteBundle" /\ t.st = "ok"
        /\ bundles' = LET Keep(x) == x.id # t.b IN SelectSeq(bundles, Keep)
        /\ expandedBundleIds' = RemoveId(expandedBundleIds, t.b)
        /\ bundleMemories' = Del(bundleMemories, t.b)
        /\ selectedMemoryIds' = PruneDeletedBundle(selectedMemoryIds, t.snap)
        /\ tasks' = Retire(t)
        /\ last' = [Note("deleteBundleDone", t.b, NoMem) EXCEPT
                       !.ids = Ids(Get(bundleMemories, t.b))]
        /\ UNCHANGED <<srvVars, loadingBundles>>
        /\ UNCHANGED <<nOps, saVars>>

\* handleLogout: the user, the bundle list, the buckets, the selection and the
\* open bundles are reset; calls in flight are not cancelled and the loading
\* flags are left.  Without a user the page renders the login form only, so
\* no handler of the panels is reachable afterwards (the bundle list is
\* empty).
Logout ==
    /\ nOps < MaxOps
    /\ nOps' = nOps + 1
    /\ last.op # "logout"
    /\ bundles' = <<>>
    /\ bundleMemories' = <<>>
    /\ selectedMemoryIds' = {}
    /\ expandedBundleIds' = <<>>
    /\ last' = Note("logout", NoBundle, NoMem)
    /\ UNCHANGED <<srvVars, loadingBundles, tasks, saVars>>

\* ------------------------------------------------------------ bundle moves
\* move(containerId, newParentId): the move would make a cycle when the new
\* parent is the bundle itself or one of its descendants
IsCycleMove_DirectOnly(bundleId, newParentId) ==
    newParentId \in {bundleId} \cup GetChildBundles(bundleId)

IsCycleMove(bundleId, newParentId) == newParentId \in Scope(bundleId)

\* handleBundleDrop for a dragged bundle row: nothing on a drop onto itself,
\* else onMoveBundle, which refuses a move that would make a cycle and
\* otherwise sends the new parent_id to the service
BundleDrop(draggedBundleId, targetBundleId) ==
    /\ nOps < MaxOps
    /\ nOps' = nOps + 1
    /\ {draggedBundleId, targetBundleId} \subseteq BundleIdsOf(bundles)
    /\ IF draggedBundleId = targetBundleId
          \/ IsCycleMove(draggedBundleId, targetBundleId)
       THEN UNCHANGED tasks
       ELSE /\ InFlight < MaxInFlight
            /\ tasks' = Spawn(Task("moveBundle", draggedBundleId, NoMem,
                                   targetBundleId, {}))
    /\ last' = [Note("bundleDrop", targetBundleId, NoMem) EXCEPT
                   !.from = draggedBundleId]
    /\ UNCHANGED <<srvVars, bundles, meVars, saVars>>

\* Mutant of MoveBundleDone: a completed move also clears the selection.
MoveBundleDone_ClearsSelection ==
    \E t \in TaskSet :
        /\ t.kind = "moveBundle" /\ t.st = "ok"
        /\ bundles' = [i \in DOMAIN bundles |->
                           IF bundles[i].id = t.b THEN t.res[1] ELSE bundles[i]]
        /\ selectedMemoryIds' = {}
        /\ tasks' = Retire(t)
        /\ last' = [Note("moveBundleDone", t.to, NoMem) EXCEPT !.from = t.b]
        /\ UNCHANGED <<srvVars, expandedBundleIds, bundleMemories,
                       loadingBundles, saVars, nOps>>

\* onMoveBundle after the await: the returned bundle replaces the old one in
\* the list
MoveBundleDone ==
    \E t \in TaskSet :
        /\ t.kind = "moveBundle" /\ t.st = "ok"
        /\ bundles' = [i \in DOMAIN bundles |->
                           IF bundles[i].id = t.b THEN t.res[1] ELSE bundles[i]]
        /\ tasks' = Retire(t)
        /\ last' = [Note("moveBundleDone", t.to, NoMem) EXCEPT !.from = t.b]
        /\ UNCHANGED <<srvVars, meVars, saVars, nOps>>

\* PATCH /bundles/{id} with a parent_id: updateBundle returns the bundle with
\* its new parent
SrvMoveBundle ==
    \E t \in TaskSet :
        /\ t.kind = "moveBundle" /\ t.st = "sent"
        /\ {t.b, t.to} \subseteq srvBundles
        /\ tasks' = Replace(t, [t EXCEPT !.st = "ok",
                                  !.res = <<[id |-> t.b, parent_id |-> t.to]>>])
        /\ UNCHANGED <<srvVars, bundles, meVars, saVars, last, nOps>>

\* ------------------------------------------------------- data service steps
\* GET /bundles/{id}/memories answered; fetchMemoriesForBundle turns a 404 of
\* a deleted bundle into []
SrvFetch ==
    \E t \in TaskSet :
        /\ t.kind \in {"load", "selectAll"} /\ t.st = "sent"
        /\ tasks' = Replace(t, [t EXCEPT !.st = "ok",
                      !.res = IF t.b \in srvBundles THEN SrvList(t.b) ELSE <<>>])
        /\ UNCHANGED <<srvVars, bundles, expandedBundleIds, bundleMemories,
                       loadingBundles, selectedMemoryIds, last>>
        /\ UNCHANGED <<nOps, saVars>>

\* the fetch fails in transport: fetchMemoriesForBundle catches and returns [];
\* err is history, the caller is handed a plain empty list
SrvFetchFail ==
    \E t \in TaskSet :
        /\ t.kind \in {"load", "selectAll"} /\ t.st = "sent"
        /\ t.b \in srvBundles /\ SrvList(t.b) # <<>>
        /\ tasks' = Replace(t, [t EXCEPT !.st = "ok", !.res = <<>>,
                                         !.err = TRUE])
        /\ UNCHANGED <<srvVars, bundles, expandedBundleIds, bundleMemories,
                       loadingBundles, selectedMemoryIds, last>>
        /\ UNCHANGED <<nOps, saVars>>

\* POST /bundles/{id}/memories: createItem
SrvSave ==
    \E t \in TaskSet :
        /\ t.kind = "save" /\ t.st = "sent"
        /\ t.b \in srvBundles
        /\ FreshIds # {}
        /\ srvMem' = [srvMem EXCEPT ![NextFreshId] = t.b]
        /\ tasks' = Replace(t, [t EXCEPT !.st = "ok",
                                         !.res = <<Item(NextFreshId, t.b)>>])
        /\ UNCHANGED <<srvBundles, bundles, expandedBundleIds, bundleMemories,
                       loadingBundles, selectedMemoryIds, last>>
        /\ UNCHANGED <<nOps, saVars>>

\* PATCH /bundles/{from}/memories/{id}: updateItem; a bundle_id in the patch
\* moves the item
SrvUpdate ==
    \E t \in TaskSet :
        /\ t.kind = "update" /\ t.st = "sent"
        /\ srvMem[t.m] = t.b
        /\ t.to \in srvBundles
        /\ srvMem' = [srvMem EXCEPT ![t.m] = t.to]
        /\ tasks' = Replace(t, [t EXCEPT !.st = "ok", !.res = <<Item(t.m, t.to)>>])
        /\ UNCHANGED <<srvBundles, bundles, expandedBundleIds, bundleMemories,
                       loadingBundles, selectedMemoryIds, last>>
        /\ UNCHANGED <<nOps, saVars>>

\* DELETE /bundles/{id}/memories/{id}: deleteItem
SrvDeleteMemory ==
    \E t \in TaskSet :
        /\ t.kind = "deleteMemory" /\ t.st = "sent"
        /\ srvMem[t.m] = t.b
        /\ srvMem' = [srvMem EXCEPT ![t.m] = Deleted]
        /\ tasks' = Replace(t, [t EXCEPT !.st = "ok"])
        /\ UNCHANGED <<srvBundles, bundles, expandedBundleIds, bundleMemories,
                       loadingBundles, selectedMemoryIds, last>>
        /\ UNCHANGED <<nOps, saVars>>

\* DELETE /bundles/{id}: deleteContainer, its items go with it
SrvDeleteBundle ==
    \E t \in TaskSet :
        /\ t.kind = "deleteBundle" /\ t.st = "sent"
        /\ t.b \in srvBundles
        /\ srvBundles' = srvBundles \ {t.b}
        /\ srvMem' = [m \in MemIds |->
                         IF srvMem[m] = t.b THEN Deleted ELSE srvMem[m]]
        /\ tasks' = Replace(t, [t EXCEPT !.st = "ok"])
        /\ UNCHANGED <<bundles, expandedBundleIds, bundleMemories,
                       loadingBundles, selectedMemoryIds, last>>
        /\ UNCHANGED <<nOps, saVars>>

\* Mutant of MutationRejected: the catch block also drops the item of the
\* rejected call from the Selection Set.
MutationRejected_PartialApply ==
    \E t \in TaskSet :
        /\ t.kind \in {"save", "update", "deleteMemory", "deleteBundle"}
        /\ t.st = "sent"
        /\ tasks' = Retire(t)
        /\ selectedMemoryIds' = selectedMemoryIds \ {t.m}
        /\ last' = Note("rejected", NoBundle, NoMem)
        /\ UNCHANGED <<srvVars, bundles, expandedBundleIds, bundleMemories,
                       loadingBundles>>
        /\ UNCHANGED <<nOps, saVars>>

\* a create, update or delete call is rejected (transport error, or the
\* target is gone): apiFetch throws and the handler's catch block only alerts
MutationRejected ==
    \E t \in TaskSet :
        /\ t.kind \in {"save", "update", "deleteMemory", "deleteBundle",
                      "moveBundle"}
        /\ t.st = "sent"
        /\ tasks' = IF t.kind = "update" THEN ContinueRun(t, TRUE)
                     ELSE Retire(t)
        /\ last' = Note("rejected", NoBundle, NoMem)
        /\ UNCHANGED <<srvVars, bundles, expandedBundleIds, bundleMemories,
                       loadingBundles, selectedMemoryIds>>
        /\ UNCHANGED <<nOps, saVars>>

\* ------------------------------------------- single-active-bundle controller
\* the ids of the selected items: Object.keys(selectedMemories)
SelIds(sel) == {x.id : x \in sel}

\* memories.every((m) => !!selectedMemories[m.id]) followed by the
\* setSelectedMemories updater shared by the checkbox handler and the
\* pending effect: delete every listed id when all are selected, store every
\* listed item otherwise
ToggleAll(mems, sel) ==
    IF Ids(mems) \subseteq SelIds(sel)
    THEN {x \in sel : x.id \notin Ids(mems)}
    ELSE {x \in sel : x.id \notin Ids(mems)} \cup Range(mems)

\* isBundleFullySelected of the single-active controller
SA_IsBundleFullySelected(b) ==
    IF b # activeBundleId \/ Len(memories) = 0 THEN FALSE
    ELSE Ids(memories) \subseteq SelIds(selectedMemories)

\* The effect on [activeBundleId, memories, pendingSelectAllBundleId,
\* selectedMemories], run on the values of the render just committed: does it
\* pass its guard?
PendingFires(active, mems, pending) ==
    active # NoBundle /\ pending = active /\ Len(mems) # 0

PendingSel(active, mems, pending, sel) ==
    IF PendingFires(active, mems, pending) THEN ToggleAll(mems, sel) ELSE sel

PendingNext(active, mems, pending) ==
    IF PendingFires(active, mems, pending) THEN NoBundle ELSE pending

\* The memory cards the single-active panel shows: the item list under the
\* active bundle's row, unless the loading line is shown.
SA_Displayed(m) ==
    /\ activeBundleId \in BundleIdsOf(bundles)
    /\ ~isLoadingMemories
    /\ m \in Ids(memories)

\* handleExpandBundle, then the effect on [activeBundleId]: clear the list when
\* nothing is active, else set the loading flag and start the fetch; then the
\* pending effect of the same render
SA_ExpandBundle(b) ==
    /\ nOps < MaxOps
    /\ nOps' = nOps + 1
    /\ b \in BundleIdsOf(bundles)
    /\ activeBundleId' = IF activeBundleId = b THEN NoBundle ELSE b
    /\ IF activeBundleId = b
       THEN /\ memories' = <<>>
            /\ UNCHANGED <<isLoadingMemories, tasks>>
       ELSE /\ InFlight < MaxInFlight
            /\ isLoadingMemories' = TRUE
            /\ tasks' = Spawn(Task("load", b, NoMem, NoBundle, {}))
            /\ UNCHANGED memories
    /\ selectedMemories' =
          PendingSel(activeBundleId', memories, pendingSelectAllBundleId,
                     selectedMemories)
    /\ pendingSelectAllBundleId' =
          PendingNext(activeBundleId', memories, pendingSelectAllBundleId)
    /\ last' = [Note("saExpand", b, NoMem) EXCEPT
                   !.sel0 = SelIds(selectedMemories)]
    /\ UNCHANGED <<srvVars, bundles, meVars>>

\* loadMemoriesForActive after the await: setMemories(items) whatever bundle is
\* active by now, clear the loading flag; then the pending effect
SA_LoadDone ==
    \E t \in TaskSet :
        /\ t.kind = "load" /\ t.st = "ok"
        /\ memories' = t.res
        /\ isLoadingMemories' = FALSE
        /\ selectedMemories' =
              PendingSel(activeBundleId, t.res, pendingSelectAllBundleId,
                         selectedMemories)
        /\ pendingSelectAllBundleId' =
              PendingNext(activeBundleId, t.res, pendingSelectAllBundleId)
        /\ tasks' = Retire(t)
        /\ last' = [Note("saLoadDone", t.b, NoMem) EXCEPT
                       !.sel0 = SelIds(selectedMemories),
                       !.from = activeBundleId,
                       !.n = IF pendingSelectAllBundleId = NoBundle THEN 0 ELSE 1]
        /\ UNCHANGED <<srvVars, bundles, meVars, activeBundleId, nOps>>

\* handleToggleBundleSelectAll on a bundle that is not the active one: make it
\* active and pending; the effects of that render start the fetch and run the
\* pending effect on the item list as it is
SA_ToggleBundleSelectAllOther(b) ==
    /\ nOps < MaxOps
    /\ nOps' = nOps + 1
    /\ b \in BundleIdsOf(bundles)
    /\ b # activeBundleId
    /\ InFlight < MaxInFlight
    /\ activeBundleId' = b
    /\ isLoadingMemories' = TRUE
    /\ tasks' = Spawn(Task("load", b, NoMem, NoBundle, {}))
    /\ selectedMemories' = PendingSel(b, memories, b, selectedMemories)
    /\ pendingSelectAllBundleId' = PendingNext(b, memories, b)
    /\ last' = [Note("saSelectAllOther", b, NoMem) EXCEPT
                   !.sel0 = SelIds(selectedMemories),
                   !.from = activeBundleId,
                   !.ids = Ids(memories)]
    /\ UNCHANGED <<srvVars, bundles, meVars, memories>>

\* handleToggleBundleSelectAll on the active bundle: nothing when the list is
\* empty, else toggle the listed items
SA_ToggleBundleSelectAll(b) ==
    /\ nOps < MaxOps
    /\ nOps' = nOps + 1
    /\ b \in BundleIdsOf(bundles)
    /\ b = activeBundleId
    /\ selectedMemories' =
          IF Len(memories) = 0 THEN selectedMemories
          ELSE ToggleAll(memories, selectedMemories)
    /\ last' = [Note("saSelectAll", b, NoMem) EXCEPT
                   !.sel0 = SelIds(selectedMemories),
                   !.ids = Ids(memories)]
    /\ UNCHANGED <<srvVars, bundles, meVars, activeBundleId, memories,
                   isLoadingMemories, pendingSelectAllBundleId, tasks>>

\* handleToggleMemorySelect of the single-active controller
SA_ToggleMemorySelect(m) ==
    /\ nOps < MaxOps
    /\ nOps' = nOps + 1
    /\ SA_Displayed(m)
    /\ LET memory == memories[Min({i \in DOMAIN memories : memories[i].id = m})]
       IN selectedMemories' =
             IF m \in SelIds(selectedMemories)
             THEN {x \in selectedMemories : x.id # m}
             ELSE selectedMemories \cup {memory}
    /\ last' = [Note("saToggle", NoBundle, m) EXCEPT
                   !.sel0 = SelIds(selectedMemories)]
    /\ UNCHANGED <<srvVars, bundles, meVars, activeBundleId, memories,
                   isLoadingMemories, pendingSelectAllBundleId, tasks>>

\* handleToggleMemorySelect of the single-active controller called with any
\* item id: it returns at once when the id is not in the item list
SA_ToggleMemorySelectCall(m) ==
    /\ nOps < MaxOps
    /\ nOps' = nOps + 1
    /\ selectedMemories' =
          IF m \notin Ids(memories) THEN selectedMemories
          ELSE LET memory ==
                     memories[Min({i \in DOMAIN memories : memories[i].id = m})]
               IN IF m \in SelIds(selectedMemories)
                  THEN {x \in selectedMemories : x.id # m}
                  ELSE selectedMemories \cup {memory}
    /\ last' = [Note("saToggleCall", NoBundle, m) EXCEPT
                   !.sel0 = SelIds(selectedMemories)]
    /\ UNCHANGED <<srvVars, bundles, meVars, activeBundleId, memories,
                   isLoadingMemories, pendingSelectAllBundleId, tasks>>

\* handleSaveMemory of the single-active controller up to the await; the
\* continuation compares with the activeBundleId of this render (kept in to)
SA_SaveMemory(b) ==
    /\ nOps < MaxOps
    /\ nOps' = nOps + 1
    /\ b \in BundleIdsOf(bundles)
    /\ InFlight < MaxInFlight
    /\ tasks' = Spawn(Task("save", b, NoMem, activeBundleId, {}))
    /\ last' = Note("saSave", b, NoMem)
    /\ UNCHANGED <<srvVars, bundles, meVars, saVars>>

\* handleSaveMemory after the await: prepend to the list when the bundle was
\* the active one at call time; then the pending effect
SA_SaveDone ==
    \E t \in TaskSet :
        /\ t.kind = "save" /\ t.st = "ok"
        /\ memories' = IF t.to = t.b THEN t.res \o memories ELSE memories
        /\ selectedMemories' =
              PendingSel(activeBundleId, memories', pendingSelectAllBundleId,
                         selectedMemories)
        /\ pendingSelectAllBundleId' =
              PendingNext(activeBundleId, memories', pendingSelectAllBundleId)
        /\ tasks' = Retire(t)
        /\ last' = [Note("saSaveDone", t.b, t.res[1].id) EXCEPT
                       !.sel0 = SelIds(selectedMemories)]
        /\ UNCHANGED <<srvVars, bundles, meVars, activeBundleId,
                       isLoadingMemories, nOps>>

\* handleUpdateMemoryContent of the single-active controller up to the await:
\* an edit of a displayed card, sent to the active bundle of this render
SA_UpdateMemoryContent(m) ==
    /\ nOps < MaxOps
    /\ nOps' = nOps + 1
    /\ activeBundleId # NoBundle
    /\ SA_Displayed(m)
    /\ InFlight < MaxInFlight
    /\ tasks' = Spawn(Task("update", activeBundleId, m, activeBundleId, {}))
    /\ last' = Note("saUpdate", activeBundleId, m)
    /\ UNCHANGED <<srvVars, bundles, meVars, saVars>>

\* handleUpdateMemoryContent after the await: replace the item in the list and
\* in the selection
SA_UpdateDone ==
    \E t \in TaskSet :
        /\ t.kind = "update" /\ t.st = "ok"
        /\ LET updated == t.res[1]
           IN /\ memories' = [i \in DOMAIN memories |->
                                 IF memories[i].id = t.m THEN updated
                                 ELSE memories[i]]
              /\ selectedMemories' =
                    PendingSel(activeBundleId, memories', pendingSelectAllBundleId,
                        IF t.m \notin SelIds(selectedMemories) THEN selectedMemories
                        ELSE {x \in selectedMemories : x.id # t.m} \cup {updated})
        /\ pendingSelectAllBundleId' =
              PendingNext(activeBundleId, memories', pendingSelectAllBundleId)
        /\ tasks' = Retire(t)
        /\ last' = [Note("saUpdateDone", t.b, t.m) EXCEPT
                       !.sel0 = SelIds(selectedMemories)]
        /\ UNCHANGED <<srvVars, bundles, meVars, activeBundleId,
                       isLoadingMemories, nOps>>

\* handleDeleteMemory of the single-active controller up to the await (the
\* confirm dialog answered yes)
SA_DeleteMemory(m) ==
    /\ nOps < MaxOps
    /\ nOps' = nOps + 1
    /\ activeBundleId # NoBundle
    /\ SA_Displayed(m)
    /\ InFlight < MaxInFlight
    /\ tasks' = Spawn(Task("deleteMemory", activeBundleId, m, NoBundle, {}))
    /\ last' = Note("saDeleteMemory", activeBundleId, m)
    /\ UNCHANGED <<srvVars, bundles, meVars, saVars>>

\* handleDeleteMemory after the await
SA_DeleteMemoryDone ==
    \E t \in TaskSet :
        /\ t.kind = "deleteMemory" /\ t.st = "ok"
        /\ memories' = RemoveItem(memories, t.m)
        /\ selectedMemories' =
              PendingSel(activeBundleId, memories', pendingSelectAllBundleId,
                         {x \in selectedMemories : x.id # t.m})
        /\ pendingSelectAllBundleId' =
              PendingNext(activeBundleId, memories', pendingSelectAllBundleId)
        /\ tasks' = Retire(t)
        /\ last' = [Note("saDeleteMemoryDone", t.b, t.m) EXCEPT
                       !.sel0 = SelIds(selectedMemories)]
        /\ UNCHANGED <<srvVars, bundles, meVars, activeBundleId,
                       isLoadingMemories, nOps>>

\* handleDeleteBundle of the single-active controller up to the await (the
\* confirm dialog answered yes); the continuation compares with the
\* activeBundleId of this render (kept in to)
SA_DeleteBundle(b) ==
    /\ nOps < MaxOps
    /\ nOps' = nOps + 1
    /\ b \in BundleIdsOf(bundles)
    /\ InFlight < MaxInFlight
    /\ tasks' = Spawn(Task("deleteBundle", b, NoMem, activeBundleId, {}))
    /\ last' = Note("saDeleteBundle", b, NoMem)
    /\ UNCHANGED <<srvVars, bundles, meVars, saVars>>

\* handleDeleteBundle after the await: drop the bundle from the list, close it
\* when it was the active one at call time, drop the selected items whose
\* bundle_id it is
SA_DeleteBundleDone ==
    \E t \in TaskSet :
        /\ t.kind = "deleteBundle" /\ t.st = "ok"
        /\ bundles' = LET Keep(x) == x.id # t.b IN SelectSeq(bundles, Keep)
        /\ activeBundleId' = IF t.to = t.b THEN NoBundle ELSE activeBundleId
        /\ memories' = IF t.to = t.b THEN <<>> ELSE memories
        /\ selectedMemories' =
              PendingSel(activeBundleId', memories', pendingSelectAllBundleId,
                         {x \in selectedMemories : x.bundle_id # t.b})
        /\ pendingSelectAllBundleId' =
              PendingNext(activeBundleId', memories', pendingSelectAllBundleId)
        /\ tasks' = Retire(t)
        /\ last' = [Note("saDeleteBundleDone", t.b, NoMem) EXCEPT
                       !.sel0 = SelIds(selectedMemories)]
        /\ UNCHANGED <<srvVars, meVars, isLoadingMemories, nOps>>

\* ------------------------------------------------------------ specification
\* After login: the bundle list is fetched, nothing is cached, opened or
\* selected.  The service holds m1 and m2 in A; m3 is not created yet.
Init ==
    /\ srvBundles = BundleIds
    /\ srvMem = [m \in MemIds |->
                    IF m \in {"m1", "m2"} THEN "A" ELSE Fresh]
    /\ bundles = <<[id |-> "A", parent_id |-> NoBundle],
                   [id |-> "B", parent_id |-> "A"]>>
    /\ expandedBundleIds = <<>>
    /\ bundleMemories = <<>>
    /\ loadingBundles = {}
    /\ selectedMemoryIds = {}
    /\ activeBundleId = NoBundle
    /\ memories = <<>>
    /\ isLoadingMemories = FALSE
    /\ selectedMemories = {}
    /\ pendingSelectAllBundleId = NoBundle
    /\ tasks = EmptyBag
    /\ last = Note("init", NoBundle, NoMem)
    /\ nOps = 0

Next ==
    \/ \E b \in BundleIds : Collapse(b)
    \/ \E b \in BundleIds : Expand(b)
    \/ \E b \in BundleIds : ToggleBundleSelectAll(b)
    \/ \E b \in BundleIds : ToggleBundleSelectAllFetch(b)
    \/ \E m \in MemIds : ToggleMemorySelect(m)
    \/ \E b \in BundleIds : SaveMemory(b)
    \/ \E m \in MemIds, to \in BundleIds : UpdateMemoryContent(m, to)
    \/ \E m \in MemIds : DeleteMemory(m)
    \/ \E b \in BundleIds : DeleteBundle(b)
    \/ LoadDone
    \/ SelectAllDone
    \/ SaveDone
    \/ UpdateDone
    \/ DeleteMemoryDone
    \/ DeleteBundleDone
    \/ SrvFetch
    \/ SrvFetchFail
    \/ SrvSave
    \/ SrvUpdate
    \/ SrvDeleteMemory
    \/ SrvDeleteBundle
    \/ MutationRejected

Spec == Init /\ [][Next]_vars

\* the single-active-bundle controller against the same data service
NextSA ==
    \/ \E b \in BundleIds : SA_ExpandBundle(b)
    \/ \E b \in BundleIds : SA_ToggleBundleSelectAllOther(b)
    \/ \E b \in BundleIds : SA_ToggleBundleSelectAll(b)
    \/ \E m \in MemIds : SA_ToggleMemorySelect(m)
    \/ \E b \in BundleIds : SA_SaveMemory(b)
    \/ \E m \in MemIds : SA_UpdateMemoryContent(m)
    \/ \E m \in MemIds : SA_DeleteMemory(m)
    \/ \E b \in BundleIds : SA_DeleteBundle(b)
    \/ SA_LoadDone
    \/ SA_SaveDone
    \/ SA_UpdateDone
    \/ SA_DeleteMemoryDone
    \/ SA_DeleteBundleDone
    \/ SrvFetch
    \/ SrvFetchFail
    \/ SrvSave
    \/ SrvUpdate
    \/ SrvDeleteMemory
    \/ SrvDeleteBundle
    \/ MutationRejected

SpecSA == Init /\ [][NextSA]_vars

\* the single-active controller with handleToggleMemorySelect called as a
\* function, with any item id
NextSACall ==
    \/ NextSA
    \/ \E m \in MemIds : SA_ToggleMemorySelectCall(m)

SpecSACall == Init /\ [][NextSACall]_vars

\* A session that rearranges the tree: the chain A > B > C, bundles dragged
\* onto bundles and bundles deleted.
InitTree ==
    /\ srvBundles = TreeBundleIds
    /\ srvMem = [m \in MemIds |->
                    IF m \in {"m1", "m2"} THEN "A" ELSE Fresh]
    /\ bundles = <<[id |-> "A", parent_id |-> NoBundle],
                   [id |-> "B", parent_id |-> "A"],
                   [id |-> "C", parent_id |-> "B"]>>
    /\ expandedBundleIds = <<>>
    /\ bundleMemories = <<>>
    /\ loadingBundles = {}
    /\ selectedMemoryIds = {}
    /\ activeBundleId = NoBundle
    /\ memories = <<>>
    /\ isLoadingMemories = FALSE
    /\ selectedMemories = {}
    /\ pendingSelectAllBundleId = NoBundle
    /\ tasks = EmptyBag
    /\ last = Note("init", NoBundle, NoMem)
    /\ nOps = 0

NextTree ==
    \/ \E x \in TreeBundleIds, y \in TreeBundleIds : BundleDrop(x, y)
    \/ \E b \in TreeBundleIds : DeleteBundle(b)
    \/ MoveBundleDone
    \/ DeleteBundleDone
    \/ SrvMoveBundle
    \/ SrvDeleteBundle
    \/ MutationRejected

SpecTree == InitTree /\ [][NextTree]_vars

\* A session that rearranges the tree while items are cached, selected and
\* shown: the chain A > B > C taken up after A was expanded, its load
\* completed and m1 was checked; bundles are dragged and deleted, bundles are
\* opened and closed and cards are checked.
InitTreeLoaded ==
    /\ srvBundles = TreeBundleIds
    /\ srvMem = [m \in MemIds |->
                    IF m \in {"m1", "m2"} THEN "A" ELSE Fresh]
    /\ bundles = <<[id |-> "A", parent_id |-> NoBundle],
                   [id |-> "B", parent_id |-> "A"],
                   [id |-> "C", parent_id |-> "B"]>>
    /\ expandedBundleIds = <<"A">>
    /\ bundleMemories = <<[key |-> "A", items |-> SrvList("A")]>>
    /\ loadingBundles = {}
    /\ selectedMemoryIds = {"m1"}
    /\ activeBundleId = NoBundle
    /\ memories = <<>>
    /\ isLoadingMemories = FALSE
    /\ selectedMemories = {}
    /\ pendingSelectAllBundleId = NoBundle
    /\ tasks = EmptyBag
    /\ last = Note("toggle", NoBundle, "m1")
    /\ nOps = 0

NextTreeLoaded ==
    \/ NextTree
    \/ \E b \in TreeBundleIds : Collapse(b)
    \/ \E b \in TreeBundleIds : Expand(b)
    \/ \E m \in MemIds : ToggleMemorySelect(m)
    \/ LoadDone
    \/ SrvFetch

SpecTreeLoaded == InitTreeLoaded /\ [][NextTreeLoaded]_vars

\* A session of the multi-expand controller that may end with a logout.
NextSession ==
    \/ Next
    \/ Logout

SpecSession == Init /\ [][NextSession]_vars

\* A session of the multi-expand controller taken up after bundle A was
\* expanded and its load completed: A is open and its bucket holds the items
\* the service has for it.
InitLoaded ==
    /\ srvBundles = BundleIds
    /\ srvMem = [m \in MemIds |->
                    IF m \in {"m1", "m2"} THEN "A" ELSE Fresh]
    /\ bundles = <<[id |-> "A", parent_id |-> NoBundle],
                   [id |-> "B", parent_id |-> "A"]>>
    /\ expandedBundleIds = <<"A">>
    /\ bundleMemories = <<[key |-> "A", items |-> SrvList("A")]>>
    /\ loadingBundles = {}
    /\ selectedMemoryIds = {}
    /\ activeBundleId = NoBundle
    /\ memories = <<>>
    /\ isLoadingMemories = FALSE
    /\ selectedMemories = {}
    /\ pendingSelectAllBundleId = NoBundle
    /\ tasks = EmptyBag
    /\ last = Note("loadDone", "A", NoMem)
    /\ nOps = 0

SpecLoaded == InitLoaded /\ [][Next]_vars

\* The same controllers with the progress the runtime guarantees: a fetch that
\* was sent is answered (fetchMemoriesForBundle always returns), and a
\* continuation whose await has resolved is run by the event loop.
SpecLive == Spec /\ WF_vars(SrvFetch) /\ WF_vars(SelectAllDone)

SpecSALive == SpecSA /\ WF_vars(SrvFetch) /\ WF_vars(SA_LoadDone)

\* ------------------------------------------------------------------ claims
\* ids of all items in some cache bucket
CachedIds == UNION {Ids(bundleMemories[i].items) : i \in DOMAIN bundleMemories}

\* number of item fetches in flight for bundle b
FetchesInFlight(b) ==
    LET F == {t \in TaskSet : t.kind \in {"load", "selectAll"} /\ t.b = b}
        RECURSIVE Sum(_)
        Sum(X) == IF X = {} THEN 0
                  ELSE LET x == CHOOSE x \in X : TRUE
                       IN tasks[x] + Sum(X \ {x})
    IN Sum(F)

ScopeIds(b) == UNION {Ids(Get(bundleMemories, c)) : c \in Scope(b)}

\* C1: every selected id is the id of an item in some cache bucket.
C1_SelectionInCache == selectedMemoryIds \subseteq CachedIds

\* C2 (as claimed): two select-all toggles in a row on a loaded bucket give
\* back the Selection Set they started from, whatever it was.
C2_DoubleToggleRestores ==
    (last.op = "selectAll" /\ last.n = 2) => selectedMemoryIds = last.sel0

\* C2 (amended): two select-all toggles in a row on a loaded, non-empty bucket
\* give back the Selection Set they started from when all or none of the
\* bucket's items were selected; from a partial selection they end with none
\* of the bucket's items selected.
C2_DoubleToggleAllOrNone ==
    (last.op = "selectAll" /\ last.n = 2) =>
        LET ids == Ids(Get(bundleMemories, last.b))
        IN IF ids \subseteq last.sel0 \/ ids \cap last.sel0 = {}
           THEN selectedMemoryIds = last.sel0
           ELSE selectedMemoryIds = last.sel0 \ ids

C2_Witness ==
    /\ last.op = "selectAll" /\ last.n = 2
    /\ Len(Get(bundleMemories, last.b)) = 2
    /\ Ids(Get(bundleMemories, last.b)) \subseteq last.sel0
    /\ selectedMemoryIds = last.sel0

\* C3: at most one item fetch per bundle is in flight.
C3_OneFetchPerBundle == \A b \in BundleIds : FetchesInFlight(b) <= 1

\* C4, multi-expand controller: when the fetch of a select-all on an unloaded
\* bucket completes, the toggle is decided from the fetched items, which are
\* the bucket's items from then on, and the Selection Set of that moment.
C4_MultiExpandDecidesAtCompletion ==
    (last.op = "selectAllDone") =>
        LET ids == Ids(Get(bundleMemories, last.b))
        IN selectedMemoryIds =
              IF ids = {} THEN last.sel0
              ELSE IF ids \subseteq last.sel0 THEN last.sel0 \ ids
              ELSE last.sel0 \cup ids

\* C4, single-active controller: a select-all on a bundle whose items are not
\* loaded decides nothing at invocation; the Selection Set is the same right
\* after the call, the decision waits for the load.
C4_DecidedAtLoadCompletion ==
    (last.op = "saSelectAllOther") => SelIds(selectedMemories) = last.sel0

\* C5: the result of a select-all that was superseded by a select-all for a
\* different bundle is discarded: it does not change the Selection Set.
C5_SupersededDiscarded ==
    (last.op = "selectAllDone" /\ last.n = 1) => selectedMemoryIds = last.sel0

\* C6: once select-all on a bundle has been applied, the items of the bundle
\* and of all its descendants are either all selected or all deselected.
C6_DescendantsIncluded ==
    (last.op \in {"selectAll", "selectAllDone"}) =>
        \/ ScopeIds(last.b) \subseteq selectedMemoryIds
        \/ ScopeIds(last.b) \cap selectedMemoryIds = {}

\* C7: after a confirmed move of item m from bundle A to bundle B, both
\* buckets loaded, m is not in A's bucket, is in B's, and is not selected.
C7_MoveDeselects ==
    (/\ last.op = "updateDone"
     /\ last.from # last.b
     /\ {last.from, last.b} \subseteq last.loaded) =>
        /\ last.m \notin Ids(Get(bundleMemories, last.from))
        /\ last.m \in Ids(Get(bundleMemories, last.b))
        /\ last.m \notin selectedMemoryIds

C7_Witness ==
    /\ last.op = "updateDone"
    /\ last.from = "A" /\ last.b = "B"
    /\ {"A", "B"} \subseteq last.loaded
    /\ last.m \in last.sel0
    /\ Len(Get(bundleMemories, "A")) = 1

\* C8: after a confirmed deletion of bundle A no item that was in A's bucket
\* is selected, A has no bucket, and A is neither open nor in the list.
C8_DeletePrunes ==
    (last.op = "deleteBundleDone") =>
        /\ selectedMemoryIds \cap last.ids = {}
        /\ last.b \notin Keys(bundleMemories)
        /\ last.b \notin Range(expandedBundleIds)
        /\ last.b \notin BundleIdsOf(bundles)

\* C9, multi-expand controller: a select-all whose fetch returns no items
\* leaves the Selection Set unchanged and the bundle is not fully selected.
C9_MultiExpandEmptyNoOp ==
    (last.op = "selectAllDone" /\ Len(Get(bundleMemories, last.b)) = 0) =>
        /\ selectedMemoryIds = last.sel0
        /\ ~IsBundleFullySelected(last.b)

\* C9, single-active controller: select-all on a bundle that holds no items
\* leaves the Selection Set unchanged and does not report the bundle as fully
\* selected.
C9_EmptyScopeNoOp ==
    (last.op \in {"saSelectAll", "saSelectAllOther"} /\ SrvList(last.b) = <<>>) =>
        /\ SelIds(selectedMemories) = last.sel0
        /\ ~SA_IsBundleFullySelected(last.b)

\* C10: an item id is in at most one bucket, at most once, and that bucket's
\* key is the item's bundle_id.
C10_OneBucketPerItem ==
    \A i, j \in DOMAIN bundleMemories :
        \A k \in DOMAIN bundleMemories[i].items,
           l \in DOMAIN bundleMemories[j].items :
            LET x == bundleMemories[i].items[k]
                y == bundleMemories[j].items[l]
            IN /\ x.bundle_id = bundleMemories[i].key
               /\ (x.id = y.id => (i = j /\ k = l))

\* C11: when the result of a fetch arrives for a bundle that has been deleted
\* meanwhile, it is discarded: the deleted bundle gets no bucket and the
\* Selection Set stays as it was.
C11_LateLoadDiscarded ==
    (/\ last.op \in {"loadDone", "selectAllDone"}
     /\ last.b \notin BundleIdsOf(bundles)) =>
        /\ last.b \notin Keys(bundleMemories)
        /\ selectedMemoryIds = last.sel0

\* C12: in the single-active controller the pending select-all marker never
\* remains set for a bundle once a load of that bundle has completed, whether
\* the load brought items or none.
C12_PendingClearedAtLoad ==
    (last.op = "saLoadDone") => pendingSelectAllBundleId # last.b

\* C13, multi-expand controller: a select-all that waits for its fetch is
\* eventually resolved (its continuation has run).
C13_MultiExpandResolved ==
    \A b \in BundleIds :
        (\E t \in TaskSet : t.kind = "selectAll" /\ t.b = b)
            ~> ~(\E t \in TaskSet : t.kind = "selectAll" /\ t.b = b)

\* C13, single-active controller: a select-all that waits for the load of its
\* bundle (the pending marker is set) is eventually resolved (the marker is
\* cleared).
C13_EventuallyResolved ==
    \A b \in BundleIds :
        (pendingSelectAllBundleId = b) ~> (pendingSelectAllBundleId # b)

\* C13, single-active controller, in finite form: while a select-all waits
\* (the pending marker is set) a load of its bundle is in flight to resolve it;
\* a marker without such a load is resolved by nothing the controller does on
\* its own.
C13_PendingHasLoad ==
    (pendingSelectAllBundleId # NoBundle) =>
        \E t \in TaskSet : t.kind = "load" /\ t.b = pendingSelectAllBundleId

\* C14: when the fetch of a load has failed, the bucket keeps the items it had
\* and is not left in the state of a bucket loaded with zero items.
C14_FailedLoadKeepsBucket ==
    (last.op = "loadDone" /\ last.err) =>
        /\ Ids(Get(bundleMemories, last.b)) = last.ids
        /\ ~(/\ last.b \in Keys(bundleMemories)
              /\ Len(Get(bundleMemories, last.b)) = 0
              /\ ~IsLoadingBundle(last.b))

\* C15: neither the step that sends a create, update, move or delete call nor
\* the step in which a sent call is given up without an answer of the service
\* (the call was rejected) changes the bundle list, the cache, the Selection
\* Set or the Expansion Set.
C15_RejectionChangesNothing ==
    [][(\/ \E t \in TaskSet :
              /\ t.kind \in {"save", "update", "deleteMemory", "deleteBundle"}
              /\ t.st = "sent"
              /\ tasks' = Retire(t)
        \/ \E t \in BagToSet(tasks') :
              /\ t.kind \in {"save", "update", "deleteMemory", "deleteBundle"}
              /\ t.st = "sent"
              /\ tasks' = Spawn(t))
        => UNCHANGED <<bundles, bundleMemories, selectedMemoryIds,
                       expandedBundleIds>>]_vars

C15_Witness ==
    /\ last.op = "rejected"
    /\ selectedMemoryIds # {}
    /\ Len(Get(bundleMemories, "A")) = 2
    /\ "A" \in Range(expandedBundleIds)

\* C16: a drop of bundle X onto Y, where Y is X or a descendant of X in the
\* list at that moment, sends nothing to the data service and leaves the
\* list as it is.
C16_CycleMoveRejected ==
    [][\A x \in TreeBundleIds, y \in TreeBundleIds :
          (/\ last'.op = "bundleDrop" /\ last'.from = x /\ last'.b = y
           /\ nOps' = nOps + 1
           /\ y \in Scope(x))
          => (tasks' = tasks /\ bundles' = bundles /\ srvBundles' = srvBundles)]_vars

C16_Witness ==
    /\ last.op = "bundleDrop" /\ last.from = "A" /\ last.b = "C"
    /\ "C" \in Scope("A") /\ "C" \notin GetChildBundles("A")
    /\ tasks = EmptyBag

\* C17: no bundle of the list is its own ancestor, and every parent_id that is
\* set names a bundle of the list.
C17_TreeWellFormed ==
    \A i \in DOMAIN bundles :
        /\ bundles[i].parent_id # NoBundle =>
              bundles[i].parent_id \in BundleIdsOf(bundles)
        /\ \A c \in GetChildBundles(bundles[i].id) :
              bundles[i].id \notin Scope(c)

\* C18, multi-expand controller: a toggle of item m flips the membership of m
\* in the Selection Set and of no other id.
C18_MultiExpandToggleFlips ==
    [][\A m \in MemIds :
          (last'.op = "toggle" /\ last'.m = m /\ nOps' = nOps + 1) =>
              /\ (m \in selectedMemoryIds') # (m \in selectedMemoryIds)
              /\ selectedMemoryIds' \ {m} = selectedMemoryIds \ {m}]_vars

\* C18, single-active controller: a call of the toggle handler with item id m,
\* whether or not m is in the item list shown, flips the membership of m in
\* the Selection Set and of no other id.
C18_ToggleFlipsAnyId ==
    (last.op = "saToggleCall") =>
        /\ (last.m \in SelIds(selectedMemories)) # (last.m \in last.sel0)
        /\ SelIds(selectedMemories) \ {last.m} = last.sel0 \ {last.m}

\* C19: every bundle of expandedBundleIds has had a fetch of its items
\* requested at or after the step that opened it; stated on the opening step:
\* a step that puts b into expandedBundleIds sends a fetch of b's items.
C19_OpenRequestsLoad ==
    [][\A b \in BundleIds :
          (b \notin Range(expandedBundleIds) /\ b \in Range(expandedBundleIds'))
              => FetchesInFlight(b)' > FetchesInFlight(b)]_vars

\* C20: opening a bundle whose bucket is loaded (the step before stored the
\* result of a successful fetch of it) sends no fetch and leaves the bucket
\* as it is.
C20_LoadedExpandNoFetch ==
    [][\A b \in BundleIds :
          (/\ last.op = "loadDone" /\ last.b = b /\ ~last.err
           /\ b \in Keys(bundleMemories)
           /\ b \notin Range(expandedBundleIds)
           /\ b \in Range(expandedBundleIds'))
              => (/\ FetchesInFlight(b)' = FetchesInFlight(b)
                  /\ Get(bundleMemories, b)' = Get(bundleMemories, b))]_vars

\* C21, multi-expand controller: the step that collapses an open bundle b
\* removes b from expandedBundleIds and changes nothing else: the buckets, the
\* Selection Set and the other open bundles stay as they are.
C21_MultiExpandCollapseOnly ==
    [][\A b \in BundleIds :
          (/\ nOps' = nOps + 1
           /\ b \in Range(expandedBundleIds)
           /\ b \notin Range(expandedBundleIds'))
              => (/\ expandedBundleIds' = RemoveId(expandedBundleIds, b)
                  /\ bundleMemories' = bundleMemories
                  /\ selectedMemoryIds' = selectedMemoryIds)]_vars

\* C21, single-active controller: the click that collapses the active bundle
\* leaves the cached items of that bundle and the Selection Set as they are.
C21_CollapseKeepsCache ==
    [][(/\ last'.op = "saExpand"
        /\ activeBundleId # NoBundle
        /\ activeBundleId' = NoBundle)
           => (/\ memories' = memories
               /\ selectedMemories' = selectedMemories)]_vars

\* C22: a loaded bucket loses no item through a fetch: the step that stores
\* the result of a failed fetch of A's items removes no id from A's bucket.
\* The bucket is a loaded one: it holds m1 or m2, items the server has in A
\* from the start, which only a completed fetch of A brings into the cache.
C22_FetchKeepsLoadedBucket ==
    [][(/\ "A" \in Keys(bundleMemories)
        /\ Ids(Get(bundleMemories, "A")) \cap {"m1", "m2"} # {}
        /\ \E t \in TaskSet :
              /\ t.kind \in {"load", "selectAll"} /\ t.b = "A" /\ t.err
              /\ tasks' = Retire(t))
           => Ids(Get(bundleMemories, "A")) \subseteq
                  Ids(Get(bundleMemories, "A")')]_vars

C24_CreateKeepsUnloaded ==
    [][\A b \in BundleIds :
          (\E t \in TaskSet :
              /\ t.kind = "save" /\ t.b = b /\ t.st = "ok"
              /\ tasks' = Retire(t))
              => IF b \in Keys(bundleMemories)
                 THEN \E t \in TaskSet :
                         /\ t.kind = "save" /\ t.b = b /\ t.st = "ok"
                         /\ Ids(t.res) \subseteq Ids(Get(bundleMemories, b)')
                 ELSE b \notin Keys(bundleMemories')]_vars

\* C25, multi-expand controller: right after the step that reconciles the
\* confirmed deletion of item m, m is in no bucket and not selected, and the
\* other items of every bucket and the other selected ids are as before.
C25_DeleteRemovesItem ==
    [][\A m \in MemIds :
          (\E t \in TaskSet :
              /\ t.kind = "deleteMemory" /\ t.m = m /\ t.st = "ok"
              /\ tasks' = Retire(t))
              => (/\ m \notin CachedIds'
                  /\ m \notin selectedMemoryIds'
                  /\ selectedMemoryIds' \ {m} = selectedMemoryIds \ {m}
                  /\ \A b \in BundleIds :
                        Get(bundleMemories, b)' =
                            RemoveItem(Get(bundleMemories, b), m))]_vars

\* C25, single-active controller: the same for the item list and the
\* selected items.
C25_SingleActiveDeleteRemovesItem ==
    (last.op = "saDeleteMemoryDone") =>
        /\ last.m \notin Ids(memories)
        /\ last.m \notin SelIds(selectedMemories)
        /\ SelIds(selectedMemories) = last.sel0 \ {last.m}

\* C26: when the continuation of an item creation in bundle b, or of a move of
\* an item to bundle b, runs after b has been deleted from the bundle list, it
\* creates no bucket for b and inserts the returned item into no bucket.
C26_DeletedTargetDiscarded ==
    [][\A b \in BundleIds :
          (/\ b \notin BundleIdsOf(bundles)
           /\ \E t \in TaskSet :
                 /\ t.st = "ok"
                 /\ \/ t.kind = "save" /\ t.b = b
                    \/ t.kind = "update" /\ t.to = b
                 /\ tasks' = Retire(t))
              => (/\ b \notin Keys(bundleMemories')
                  /\ \A t \in TaskSet :
                        (t.st = "ok" /\ t.kind \in {"save", "update"}
                         /\ tasks' = Retire(t))
                            => \A c \in BundleIds :
                                  Ids(t.res) \cap Ids(Get(bundleMemories, c)')
                                      \subseteq Ids(Get(bundleMemories, c)))]_vars

\* C27: the step that reconciles the confirmed deletion of bundle b leaves the
\* bucket and the open state of every other bundle as they were, and keeps
\* selected every selected id of an item of another bundle's bucket that is
\* not the id of an item of b's bucket.
C27_DeleteBundleFrame ==
    [][\A b \in BundleIds :
          (\E t \in TaskSet :
              /\ t.kind = "deleteBundle" /\ t.b = b /\ t.st = "ok"
              /\ tasks' = Retire(t))
              => (/\ \A c \in BundleIds \ {b} :
                        /\ Get(bundleMemories, c)' = Get(bundleMemories, c)
                        /\ (c \in Keys(bundleMemories')) =
                               (c \in Keys(bundleMemories))
                        /\ (c \in Range(expandedBundleIds')) =
                               (c \in Range(expandedBundleIds))
                  /\ \A c \in BundleIds \ {b} :
                        (selectedMemoryIds \cap Ids(Get(bundleMemories, c)))
                            \ Ids(Get(bundleMemories, b))
                                \subseteq selectedMemoryIds')]_vars

\* C28: a bundle move changes only the bundle list: the step of the drop and
\* the step that reconciles the confirmed move leave the buckets, the
\* Selection Set, the open bundles and the loading flags as they are, and the
\* reconciling step keeps the bundles of the list, changing the parent of the
\* moved one only.
C28_MoveBundleTreeOnly ==
    [][(\/ nOps' = nOps + 1 /\ last'.op = "bundleDrop"
        \/ \E t \in TaskSet :
              /\ t.kind = "moveBundle" /\ t.st = "ok"
              /\ tasks' = Retire(t))
           => (/\ UNCHANGED <<bundleMemories, selectedMemoryIds,
                              expandedBundleIds, loadingBundles>>
               /\ Len(bundles') = Len(bundles)
               /\ \A i \in DOMAIN bundles :
                     /\ bundles'[i].id = bundles[i].id
                     /\ (bundles'[i] # bundles[i]) =>
                            \E t \in TaskSet :
                               /\ t.kind = "moveBundle" /\ t.st = "ok"
                               /\ t.b = bundles[i].id
                               /\ bundles'[i].parent_id = t.to)]_vars

\* C28 witness: the move of C under A has been reconciled (C's parent is A)
\* with A open, its bucket holding two items and m1 selected.
C28_Witness ==
    /\ last.op = "moveBundleDone" /\ last.from = "C" /\ last.b = "A"
    /\ \E i \in DOMAIN bundles :
          bundles[i].id = "C" /\ bundles[i].parent_id = "A"
    /\ "A" \in Range(expandedBundleIds)
    /\ Len(Get(bundleMemories, "A")) = 2
    /\ selectedMemoryIds = {"m1"}

\* C29: an item m moved to bundle b while b had no bucket is put into b's
\* bucket, and when b is then opened and this first load of b completes, m,
\* which the service holds in b, is still in b's bucket.
C29_MovedItemSurvivesLoad ==
    [][\A b \in BundleIds, m \in MemIds :
          (/\ last.op = "expand" /\ last.b = b /\ last.m = m
           /\ srvMem[m] = b
           /\ m \in Ids(Get(bundleMemories, b))
           /\ FetchesInFlight(b) = 1
           /\ \E t \in TaskSet :
                 /\ t.kind = "load" /\ t.b = b /\ t.st = "ok"
                 /\ tasks' = Retire(t))
              => m \in Ids(Get(bundleMemories, b)')]_vars

\* C29, the insertion: right after the completion of a move of m to a bundle
\* that had no bucket, the bundle has a bucket and m is its first item.
C29_MovedItemInserted ==
    (last.op = "updateDone" /\ last.from # last.b /\ last.b \notin last.loaded)
        => /\ last.b \in Keys(bundleMemories)
           /\ Get(bundleMemories, last.b)[1].id = last.m

\* C30: in the single-active controller, the step in which select-all is
\* requested for a bundle other than the active one, while the item list
\* holds the items of the bundle that was active, selects and deselects none
\* of the listed items: the Selection Set is the same right after the step.
C30_DeferredSparesListedItems ==
    (/\ last.op = "saSelectAllOther"
     /\ last.from # NoBundle /\ last.from # last.b
     /\ last.ids # {})
        => SelIds(selectedMemories) \cap last.ids = last.sel0 \cap last.ids

\* C31: in the single-active controller, when the active bundle has loaded
\* with zero items (no load is in flight, the list was empty) and an item is
\* then created in it, the step that puts the created item into the list does
\* not select it: the Selection Set is the same right after the step.
C31_CreatedItemNotSelected ==
    (/\ last.op = "saSaveDone"
     /\ last.b = activeBundleId
     /\ Ids(memories) = {last.m}
     /\ ~(\E t \in TaskSet : t.kind = "load"))
        => /\ last.m \notin SelIds(selectedMemories)
           /\ SelIds(selectedMemories) = last.sel0

\* C32: after the logout the bundle list, the buckets, the Selection Set and
\* the open bundles stay empty: a step taken when the last step of the
\* controller was the logout (the answer of the service to a call in flight,
\* or the continuation of such a call) leaves all four empty.
C32_LogoutStaysEmpty ==
    [][(last.op = "logout")
           => (/\ bundles' = <<>>
               /\ bundleMemories' = <<>>
               /\ selectedMemoryIds' = {}
               /\ expandedBundleIds' = <<>>)]_vars

C33_SingleActiveSelectAllNegates ==
    (last.op = "saSelectAll" /\ last.ids # {}) =>
        LET was == last.ids \subseteq last.sel0
        IN /\ was => SelIds(selectedMemories) \cap last.ids = {}
           /\ ~was => last.ids \subseteq SelIds(selectedMemories)
           /\ SA_IsBundleFullySelected(last.b) = ~was

\* C34: isLoadingBundle(b) is true exactly while at least one fetch of b's
\* items (started by an expansion or by select-all) is in flight.
C34_LoadingIffFetching ==
    \A b \in BundleIds : IsLoadingBundle(b) = (FetchesInFlight(b) > 0)

\* C35: the step that completes a fetch of bundle b's items (a load or the
\* fetch of a select-all) sets b's bucket to the fetched list and leaves every
\* other bucket, present or absent, exactly as it is when the step is taken.
C35_LoadTouchesOwnBucket ==
    [][\A b \in BundleIds :
          \A t \in TaskSet :
             (/\ t.kind \in {"load", "selectAll"} /\ t.b = b /\ t.st = "ok"
              /\ tasks' = Retire(t))
                 => (/\ b \in Keys(bundleMemories')
                     /\ Get(bundleMemories, b)' = t.res
                     /\ \A c \in BundleIds \ {b} :
                           /\ Get(bundleMemories, c)' = Get(bundleMemories, c)
                           /\ (c \in Keys(bundleMemories')) =
                                  (c \in Keys(bundleMemories)))]_vars

\* C35 witness: the load of A has just completed and stored two items while
\* B's bucket, which a creation or a move has written, still holds its item.
C35_Witness ==
    /\ last.op = "loadDone" /\ last.b = "A" /\ ~last.err
    /\ last.ids = {}
    /\ Len(Get(bundleMemories, "A")) = 2
    /\ Len(Get(bundleMemories, "B")) = 1

\* number of buckets' positions that hold item m
Occurrences(bm, m) ==
    {<<i, k>> : i \in DOMAIN bm, k \in 1..3} \cap
    {p \in (DOMAIN bm) \X (1..3) :
        p[2] \in DOMAIN bm[p[1]].items /\ bm[p[1]].items[p[2]].id = m}

\* C36, multi-expand controller: the step that reconciles a confirmed update
\* of item m that keeps its bundle (m being in one bucket, once) leaves the
\* Selection Set as it is, leaves m in the bucket it is in, once, and leaves
\* the other items of every bucket as they are.
C36_EditKeepsPlace ==
    [][\A m \in MemIds :
          \A t \in TaskSet :
             (/\ t.kind = "update" /\ t.m = m /\ t.st = "ok"
              /\ t.to = t.b
              /\ Cardinality(Occurrences(bundleMemories, m)) = 1
              /\ tasks' = Retire(t))
                 => (/\ selectedMemoryIds' = selectedMemoryIds
                     /\ Cardinality(Occurrences(bundleMemories', m)) = 1
                     /\ \A c \in BundleIds :
                           /\ (m \in Ids(Get(bundleMemories, c)'))
                                  = (m \in Ids(Get(bundleMemories, c)))
                           /\ RemoveItem(Get(bundleMemories, c)', m)
                                  = RemoveItem(Get(bundleMemories, c), m))]_vars

\* C36, single-active controller: the confirmed edit of an item leaves the
\* ids of the Selection Set as they are and the listed item in its place.
C36_SingleActiveEditKeepsPlace ==
    (last.op = "saUpdateDone") => SelIds(selectedMemories) = last.sel0

\* The multi-expand controller with the bulk move of the selected items,
\* started with bundle A opened and loaded.
NextBulk ==
    \/ Next
    \/ \E b \in BundleIds, to \in BundleIds : MoveSelectedMemories(b, to)

SpecBulk == InitLoaded /\ [][NextBulk]_vars

\* C37: the step that ends a bulk move of the selected items of a bundle to
\* bundle T, no other operation having been started since the bulk move was
\* and no other create, update or delete call being in flight,
\* leaves every item of the move that the data service still holds in
\* exactly one of the two buckets, and when
\* no call of the move was rejected it leaves them all in T's bucket, none in
\* the source bucket and none in the Selection Set.  The calls of one bulk
\* move are made one after another (one task carries the loop).
C37_BulkMoveEnds ==
    [][\A t \in TaskSet :
          (/\ t.kind = "update" /\ t.run.src # NoBundle /\ t.rest = <<>>
           /\ t.st \in {"ok", "sent"}
           /\ tasks' = Retire(t)
           /\ nOps = t.run.op0
           /\ \A u \in TaskSet \ {t} : u.kind \in {"load", "selectAll"})
              => LET InSrc(m) == m \in Ids(Get(bundleMemories, t.run.src)')
                     InT(m) == m \in Ids(Get(bundleMemories, t.to)')
                     allOk == ~t.run.failed /\ last'.op = "updateDone"
                     items == {m \in t.run.all : srvMem[m] \in BundleIds}
                 IN /\ \A m \in items : InSrc(m) # InT(m)
                    /\ allOk => \A m \in items :
                                   /\ InT(m) /\ ~InSrc(m)
                                   /\ m \notin selectedMemoryIds']_vars

\* ------------------------------------------------------ rendering the tree
\* Mutant of ChildNodes: the null root has every bundle of the list as its
\* child, not only the bundles without a parent.
ChildNodes_AllAtRoot(parentId) ==
    LET IsChild(b) == parentId = NoBundle \/ b.parent_id = parentId
    IN SelectSeq(bundles, IsChild)

\* const nodes = getChildBundles(parentId): the children in list order
ChildNodes(parentId) ==
    LET IsChild(b) == b.parent_id = parentId
    IN SelectSeq(bundles, IsChild)

\* the row that stands for a recursion deeper than the call stack allows
Overflow == "overflow"

\* renderBundleTree(parentId, level): the ids of the <li> rows it returns, in
\* order; each child is followed by the rows of its own children when it is
\* expanded and has children.  fuel is the number of nested calls still
\* allowed.
RECURSIVE RenderBundleTree(_, _)
RenderBundleTree(parentId, fuel) ==
    IF fuel = 0 THEN <<Overflow>>
    ELSE LET nodes == ChildNodes(parentId)
             RECURSIVE Rows(_)
             Rows(i) ==
                 IF i > Len(nodes) THEN <<>>
                 ELSE <<nodes[i].id>>
                      \o (IF /\ nodes[i].id \in Range(expandedBundleIds)
                             /\ GetChildBundles(nodes[i].id) # {}
                          THEN RenderBundleTree(nodes[i].id, fuel - 1)
                          ELSE <<>>)
                      \o Rows(i + 1)
         IN Rows(1)

\* {renderBundleTree(null, 0)}: the rows of the panel; a traversal that is
\* nested deeper than there are bundles is going round a cycle
RenderedRows == RenderBundleTree(NoBundle, Len(bundles) + 1)

\* a click on the row of a bundle that the panel shows
ExpandRow(b) == b \in Range(RenderedRows) /\ Expand(b)
CollapseRow(b) == b \in Range(RenderedRows) /\ Collapse(b)

\* a parent_id that names no bundle of the list
Dangling == "Z"

\* The panel over any bundle list the data service may return: every
\* assignment of parent_id values to A, B and C (no parent, one of the three,
\* or a bundle that is not in the list), with nothing expanded yet or with
\* all three expanded and loaded.
InitRender ==
    /\ srvBundles = TreeBundleIds
    /\ srvMem = [m \in MemIds |->
                    IF m \in {"m1", "m2"} THEN "A" ELSE Fresh]
    /\ \E p \in [TreeBundleIds -> TreeBundleIds \cup {NoBundle, Dangling}] :
          bundles = [i \in DOMAIN TreeOrder |->
                        [id |-> TreeOrder[i], parent_id |-> p[TreeOrder[i]]]]
    /\ \/ /\ expandedBundleIds = <<>>
          /\ bundleMemories = <<>>
       \/ /\ expandedBundleIds = TreeOrder
          /\ bundleMemories = [i \in DOMAIN TreeOrder |->
                                  [key |-> TreeOrder[i],
                                   items |-> SrvList(TreeOrder[i])]]
    /\ loadingBundles = {}
    /\ selectedMemoryIds = {}
    /\ activeBundleId = NoBundle
    /\ memories = <<>>
    /\ isLoadingMemories = FALSE
    /\ selectedMemories = {}
    /\ pendingSelectAllBundleId = NoBundle
    /\ tasks = EmptyBag
    /\ last = Note("init", NoBundle, NoMem)
    /\ nOps = 0

NextRender ==
    \/ \E b \in TreeBundleIds : ExpandRow(b)
    \/ \E b \in TreeBundleIds : CollapseRow(b)
    \/ SrvFetch
    \/ LoadDone

SpecRender == InitRender /\ [][NextRender]_vars

\* some bundle is its own ancestor
HasCycle ==
    \E i \in DOMAIN bundles :
        bundles[i].id \in
            UNION {ScopeOf(c, Len(bundles)) : c \in GetChildBundles(bundles[i].id)}

\* C38: for every assignment of parent_id values, cyclic and dangling ones
\* included, the traversal from the null root ends without ever being nested
\* deeper than there are bundles, and its rows show each bundle at most once.
C38_RenderTerminatesOnce ==
    LET rows == RenderedRows
    IN /\ Overflow \notin Range(rows)
       /\ \A i, j \in DOMAIN rows : rows[i] = rows[j] => i = j

\* a list with a cycle of two expanded bundles next to a root
\* bundle, after a row was clicked: the only row is the root
C38_Witness ==
    /\ HasCycle
    /\ nOps > 0
    /\ \E i, j \in DOMAIN bundles :
          /\ i # j
          /\ bundles[i].parent_id = bundles[j].id
          /\ bundles[j].parent_id = bundles[i].id
          /\ {bundles[i].id, bundles[j].id} \subseteq Range(expandedBundleIds)
    /\ Len(RenderedRows) = 1

=============================================================================
